---- MODULE Spec2Model ----
(***************************************************************************)
(* Model of tools/convert_step.py: the batch driver (main, convert and the *)
(* kernel wrappers read_step, scale_shape, mesh_shape, export_stl) and the *)
(* name sanitizer slugify.                                                 *)
(*                                                                         *)
(* A string is a sequence of Unicode code points (32 is the space, 45 the  *)
(* hyphen, 46 the period, 95 the underscore, 65..90 are A..Z, 97..122 are  *)
(* a..z, 48..57 are the digits, everything from 128 on is non-ASCII).      *)
(***************************************************************************)
EXTENDS Integers, Sequences, FiniteSets, TLC

VARIABLES
    name,        \* slugify: the argument `name`
    normalized,  \* slugify: the local `normalized`
    line,        \* slugify: the source line about to run (0 = returned)
    keep_mm,     \* main: args.keep_mm
    input_dir,   \* the names of the files in INPUT_DIR
    dir_exists,  \* whether OUTPUT_DIR exists
    outdir,      \* the files of OUTPUT_DIR: file name -> content
    outdir0,     \* history: outdir when main started
    outdir_before, \* history: outdir when the loop took the current file
    step_files,  \* main: the list `step_files`
    idx,         \* main: position of `step_file` in step_files (0 before the loop)
    pc,          \* main/convert: the statement about to run
    shape,       \* convert: the local `shape`
    target,      \* convert: the local `target` (file name inside OUTPUT_DIR)
    exc,         \* the exception in flight
    stdout,      \* the lines printed so far
    trace,       \* history: the kernel calls made so far
    ended        \* "running" until main ends, then "returned" (or "raised")

slug_vars == <<name, normalized, line>>

pipe_vars == <<keep_mm, input_dir, dir_exists, outdir, outdir0, outdir_before,
               step_files, idx, pc, shape, target, exc, stdout, trace, ended>>

vars == <<slug_vars, pipe_vars>>

----------------------------------------------------------------------------
(* Bounds of the sanitizer's input space.                                  *)

MaxLen == 3

\* ' '  '!'  '-'  '.'  '2'  'A'  '_'  'a'  NBSP  e-acute  fi-ligature
\* CJK 'ri'  fullwidth hyphen-minus
Alphabet == {32, 33, 45, 46, 50, 65, 95, 97, 160, 233, 64257, 26085, 65293}

RECURSIVE SeqsUpTo(_, _)
SeqsUpTo(S, n) ==
    IF n = 0 THEN {<<>>}
    ELSE LET shorter == SeqsUpTo(S, n - 1)
         IN  shorter \cup {Append(s, c) : s \in {t \in shorter : Len(t) = n - 1}, c \in S}

\* "Bracket Mount v2"
BracketMountV2 ==
    <<66, 114, 97, 99, 107, 101, 116, 32, 77, 111, 117, 110, 116, 32, 118, 50>>
\* "bracket-mount-v2"
BracketMountV2Slug ==
    <<98, 114, 97, 99, 107, 101, 116, 45, 109, 111, 117, 110, 116, 45, 118, 50>>
\* the three CJK characters of the second scenario
Nihongo == <<26085, 26412, 35486>>

\* every short string over Alphabet, the longer strings of hyphens and 'a',
\* and the stems of the two scenarios
Names ==
    SeqsUpTo(Alphabet, MaxLen) \cup SeqsUpTo({45, 97}, MaxLen + 2)
        \cup {BracketMountV2, Nihongo}

----------------------------------------------------------------------------
(* slugify, line by line.                                                  *)

\* unicodedata.normalize('NFKD', c) for one character: the compatibility
\* decomposition of the characters of Alphabet and of the scenarios; ASCII
\* and the CJK characters have none.
NFKD(c) ==
    CASE c = 160   -> <<32>>            \* NO-BREAK SPACE -> SPACE
      [] c = 233   -> <<101, 769>>      \* e-acute -> e, COMBINING ACUTE ACCENT
      [] c = 64257 -> <<102, 105>>      \* LATIN SMALL LIGATURE FI -> f, i
      [] c = 65293 -> <<45>>            \* FULLWIDTH HYPHEN-MINUS -> HYPHEN-MINUS
      [] OTHER     -> <<c>>

RECURSIVE normalize(_)
normalize(s) ==
    IF s = <<>> THEN <<>> ELSE NFKD(Head(s)) \o normalize(Tail(s))

IsAscii(c) == c < 128

\* .encode('ascii', 'ignore').decode('ascii')
encode_ascii_ignore(s) == SelectSeq(s, IsAscii)

\* .replace(' ', '-')
replace_spaces(s) == [i \in DOMAIN s |-> IF s[i] = 32 THEN 45 ELSE s[i]]

\* .lower() of an ASCII string
lower(s) == [i \in DOMAIN s |-> IF s[i] \in 65..90 THEN s[i] + 32 ELSE s[i]]

\* the character class [a-z0-9._-]
IsSlugChar(c) == c \in (97..122) \cup (48..57) \cup {46, 95, 45}

\* re.sub(r'[^a-z0-9._-]', '', s)
remove_disallowed(s) == SelectSeq(s, IsSlugChar)

\* a slip: the pattern '--' in place of '-{2,}' (each pair becomes one hyphen)
RECURSIVE collapse_hyphens_pairs(_)
collapse_hyphens_pairs(s) ==
    IF Len(s) < 2 THEN s
    ELSE IF s[1] = 45 /\ s[2] = 45
         THEN <<45>> \o collapse_hyphens_pairs(SubSeq(s, 3, Len(s)))
         ELSE <<s[1]>> \o collapse_hyphens_pairs(Tail(s))

\* re.sub(r'-{2,}', '-', s)
RECURSIVE collapse_hyphens(_)
collapse_hyphens(s) ==
    IF Len(s) < 2 THEN s
    ELSE IF s[1] = 45 /\ s[2] = 45 THEN collapse_hyphens(Tail(s))
         ELSE <<s[1]>> \o collapse_hyphens(Tail(s))

RECURSIVE lstrip_hyphens(_)
lstrip_hyphens(s) ==
    IF s # <<>> /\ s[1] = 45 THEN lstrip_hyphens(Tail(s)) ELSE s

RECURSIVE rstrip_hyphens(_)
rstrip_hyphens(s) ==
    IF s # <<>> /\ s[Len(s)] = 45 THEN rstrip_hyphens(SubSeq(s, 1, Len(s) - 1)) ELSE s

\* a slip: .lstrip('-') in place of .strip('-')
strip_hyphens_left_only(s) == lstrip_hyphens(s)

\* .strip('-')
strip_hyphens(s) == rstrip_hyphens(lstrip_hyphens(s))

\* 'converted'
Converted == <<99, 111, 110, 118, 101, 114, 116, 101, 100>>

\* line 73
slug_line73(s) == encode_ascii_ignore(normalize(s))
\* line 74
slug_line74(s) == lower(replace_spaces(s))
\* line 75
slug_line75(s) == remove_disallowed(s)
\* line 76
slug_line76(s) == strip_hyphens(collapse_hyphens(s))
\* a slip: the result is returned without the fallback
slug_line77_no_fallback(s) == s

\* line 77: `normalized or 'converted'`
slug_line77(s) == IF s = <<>> THEN Converted ELSE s

slugify(s) == slug_line77(slug_line76(slug_line75(slug_line74(slug_line73(s)))))

----------------------------------------------------------------------------
(* Files, paths and the directory scan.                                    *)

MaxFiles == 3

\* ".STP" and ".stl"
ExtSTP == <<46, 83, 84, 80>>
ExtStl == <<46, 115, 116, 108>>

\* The files INPUT_DIR may hold: "a-b.STP", "A B.STP", "a b.STP" (their
\* stems sanitize to the same slug), a stem of one CJK character, and
\* "x.stp", which the case-sensitive pattern does not match.
Pool ==
    { <<97, 45, 98>> \o ExtSTP,
      <<65, 32, 66>> \o ExtSTP,
      <<97, 32, 98>> \o ExtSTP,
      <<26085>> \o ExtSTP,
      <<120, 46, 115, 116, 112>> }

\* a slip: the pattern matched without regard to case
MatchesPattern_any_case(n) ==
    /\ Len(n) >= Len(ExtSTP)
    /\ lower(SubSeq(n, Len(n) - Len(ExtSTP) + 1, Len(n))) = lower(ExtSTP)

\* fnmatch of a file name against "*.STP"
MatchesPattern(n) ==
    /\ Len(n) >= Len(ExtSTP)
    /\ SubSeq(n, Len(n) - Len(ExtSTP) + 1, Len(n)) = ExtSTP

\* directory.glob("*.STP")
glob(dir) == {n \in dir : MatchesPattern(n)}

\* order of two paths of one directory: that of their names, by code point
RECURSIVE LexLess(_, _)
LexLess(a, b) ==
    IF a = <<>> THEN b # <<>>
    ELSE IF b = <<>> THEN FALSE
    ELSE IF a[1] # b[1] THEN a[1] < b[1]
    ELSE LexLess(Tail(a), Tail(b))

RECURSIVE sorted(_)
sorted(S) ==
    IF S = {} THEN <<>>
    ELSE LET least == CHOOSE n \in S : \A m \in S \ {n} : LexLess(n, m)
         IN  <<least>> \o sorted(S \ {least})

\* iter_step_files(INPUT_DIR)
iter_step_files(dir) == sorted(glob(dir))

\* Path.stem: the name without its last suffix; a dot that starts or ends
\* the name begins no suffix
stem(n) ==
    LET dots == {i \in DOMAIN n : n[i] = 46}
        last == IF dots = {} THEN 0 ELSE CHOOSE i \in dots : \A j \in dots : j <= i
    IN  IF 1 < last /\ last < Len(n) THEN SubSeq(n, 1, last - 1) ELSE n

----------------------------------------------------------------------------
(* Shapes, files of the output directory, exceptions, printed lines.       *)

\* IFSelect_ReturnStatus: RetVoid, RetDone, RetError, RetFail, RetStop
ReadStatuses == 0..4
IFSelect_RetDone == 1

\* the factor 0.001 of convert, as its denominator
ScaleDen == 1000

NoShape == [src |-> <<>>, scale_den |-> 0, meshed |-> FALSE]

NoExc == [what |-> "none", path |-> <<>>, status |-> -1]

EmptyDir == [p \in {} |-> [kind |-> "old", shape |-> NoShape]]

\* OUTPUT_DIR when main starts: absent, empty, or holding a file of an
\* earlier run under the name "a-b.stl"
InitialDirs ==
    { [exists |-> FALSE, files |-> EmptyDir],
      [exists |-> TRUE,  files |-> EmptyDir],
      [exists |-> TRUE,  files |-> [p \in {<<97, 45, 98>> \o ExtStl} |->
                                        [kind |-> "old", shape |-> NoShape]]] }

\* a slip: a file that exists is not replaced (exclusive creation)
WriteFile_exclusive(dir, path, content) ==
    [p \in (DOMAIN dir) \cup {path} |-> IF p \in DOMAIN dir THEN dir[p] ELSE content]

\* the directory after a file was written (created or overwritten)
WriteFile(dir, path, content) ==
    [p \in (DOMAIN dir) \cup {path} |-> IF p = path THEN content ELSE dir[p]]

\* a kernel call: the position of the file, the step, whether it succeeded,
\* the read status (-1 for the other steps), the shape it returned or was
\* given, and whether it left a file at the target
Event(i, step, ok, status, sh, wrote) ==
    [idx |-> i, step |-> step, ok |-> ok, status |-> status, shape |-> sh,
     wrote |-> wrote]

\* a slip: `if not status` in place of `if status != 1`
ReadDone_truthy(status) == status # 0

\* read_step, line 34: the status check
ReadDone(status) == status = IFSelect_RetDone

\* a slip: the flag read the wrong way round
NeedsScale_inverted(keep_millimetre) == keep_millimetre

\* convert, line 61: whether the shape is rescaled
NeedsScale(keep_millimetre) == ~keep_millimetre

\* scale_shape(shape, 0.001): a new shape, the argument is not changed
scale_shape(sh) == [sh EXCEPT !.scale_den = @ * ScaleDen]

\* mesh_shape(shape): the mesh is attached to the shape in place
mesh_shape(sh) == [sh EXCEPT !.meshed = TRUE]

----------------------------------------------------------------------------
(* main and convert, one statement per action.                             *)

Init ==
    /\ name = <<>>
    /\ normalized = <<>>
    /\ line = 0
    /\ keep_mm \in BOOLEAN
    /\ input_dir \in {S \in SUBSET Pool : Cardinality(S) <= MaxFiles}
    /\ \E d \in InitialDirs :
          /\ dir_exists = d.exists
          /\ outdir = d.files
          /\ outdir0 = d.files
          /\ outdir_before = d.files
    /\ step_files = <<>>
    /\ idx = 0
    /\ pc = "mkdir"
    /\ shape = NoShape
    /\ target = <<>>
    /\ exc = NoExc
    /\ stdout = <<>>
    /\ trace = <<>>
    /\ ended = "running"

\* line 85: OUTPUT_DIR.mkdir(parents=True, exist_ok=True)
Mkdir ==
    /\ pc = "mkdir"
    /\ dir_exists' = TRUE
    /\ pc' = "list"
    /\ UNCHANGED <<slug_vars, keep_mm, input_dir, outdir, outdir0, outdir_before,
                   step_files, idx, shape, target, exc, stdout, trace, ended>>

\* line 87
ListStepFiles ==
    /\ pc = "list"
    /\ step_files' = iter_step_files(input_dir)
    /\ pc' = "check"
    /\ UNCHANGED <<slug_vars, keep_mm, input_dir, dir_exists, outdir, outdir0,
                   outdir_before, idx, shape, target, exc, stdout, trace, ended>>

\* lines 88-90
NoStepFiles ==
    /\ pc = "check"
    /\ step_files = <<>>
    /\ stdout' = Append(stdout, [kind |-> "info", file |-> <<>>, target |-> <<>>,
                                 exc |-> NoExc])
    /\ pc' = "done"
    /\ ended' = "returned"
    /\ UNCHANGED <<slug_vars, keep_mm, input_dir, dir_exists, outdir, outdir0,
                   outdir_before, step_files, idx, shape, target, exc, trace>>

\* line 88, the list is not empty
EnterLoop ==
    /\ pc = "check"
    /\ step_files # <<>>
    /\ pc' = "loop"
    /\ UNCHANGED <<slug_vars, keep_mm, input_dir, dir_exists, outdir, outdir0,
                   outdir_before, step_files, idx, shape, target, exc, stdout,
                   trace, ended>>

\* line 92: the next step_file
LoopNext ==
    /\ pc = "loop"
    /\ idx < Len(step_files)
    /\ idx' = idx + 1
    /\ outdir_before' = outdir
    /\ shape' = NoShape
    /\ target' = <<>>
    /\ pc' = "read"
    /\ UNCHANGED <<slug_vars, keep_mm, input_dir, dir_exists, outdir, outdir0,
                   step_files, exc, stdout, trace, ended>>

\* line 92: the list is exhausted, main returns
LoopEnd ==
    /\ pc = "loop"
    /\ idx = Len(step_files)
    /\ pc' = "done"
    /\ ended' = "returned"
    /\ UNCHANGED <<slug_vars, keep_mm, input_dir, dir_exists, outdir, outdir0,
                   outdir_before, step_files, idx, shape, target, exc, stdout, trace>>

\* lines 60, 31-37: read_step(step_path)
ReadStep ==
    /\ pc = "read"
    /\ \E status \in ReadStatuses :
          IF ReadDone(status)
          THEN /\ shape' = [src |-> step_files[idx], scale_den |-> 1, meshed |-> FALSE]
               /\ trace' = Append(trace, Event(idx, "read", TRUE, status, shape', FALSE))
               /\ exc' = exc
               /\ pc' = IF NeedsScale(keep_mm) THEN "scale" ELSE "mesh"
          ELSE /\ exc' = [what |-> "read", path |-> step_files[idx], status |-> status]
               /\ trace' = Append(trace, Event(idx, "read", FALSE, status, NoShape, FALSE))
               /\ shape' = shape
               /\ pc' = "except"
    /\ UNCHANGED <<slug_vars, keep_mm, input_dir, dir_exists, outdir, outdir0,
                   outdir_before, step_files, idx, target, stdout, ended>>

\* lines 62, 45-49: shape = scale_shape(shape, 0.001)
ScaleShape ==
    /\ pc = "scale"
    /\ shape' = scale_shape(shape)
    /\ trace' = Append(trace, Event(idx, "scale", TRUE, -1, shape', FALSE))
    /\ pc' = "mesh"
    /\ UNCHANGED <<slug_vars, keep_mm, input_dir, dir_exists, outdir, outdir0,
                   outdir_before, step_files, idx, target, exc, stdout, ended>>

\* lines 62, 45-49: the kernel raises while transforming
ScaleRaises ==
    /\ pc = "scale"
    /\ exc' = [what |-> "scale", path |-> step_files[idx], status |-> -1]
    /\ trace' = Append(trace, Event(idx, "scale", FALSE, -1, shape, FALSE))
    /\ pc' = "except"
    /\ UNCHANGED <<slug_vars, keep_mm, input_dir, dir_exists, outdir, outdir0,
                   outdir_before, step_files, idx, shape, target, stdout, ended>>

\* lines 64, 40-42: mesh_shape(shape)
MeshShape ==
    /\ pc = "mesh"
    /\ shape' = mesh_shape(shape)
    /\ trace' = Append(trace, Event(idx, "mesh", TRUE, -1, shape', FALSE))
    /\ pc' = "name"
    /\ UNCHANGED <<slug_vars, keep_mm, input_dir, dir_exists, outdir, outdir0,
                   outdir_before, step_files, idx, target, exc, stdout, ended>>

\* lines 64, 40-42: the kernel raises while meshing
MeshRaises ==
    /\ pc = "mesh"
    /\ exc' = [what |-> "mesh", path |-> step_files[idx], status |-> -1]
    /\ trace' = Append(trace, Event(idx, "mesh", FALSE, -1, shape, FALSE))
    /\ pc' = "except"
    /\ UNCHANGED <<slug_vars, keep_mm, input_dir, dir_exists, outdir, outdir0,
                   outdir_before, step_files, idx, shape, target, stdout, ended>>

\* lines 66-67: target = OUTPUT_DIR / (slugify(step_path.stem) + ".stl")
TargetName ==
    /\ pc = "name"
    /\ name' = stem(step_files[idx])
    /\ normalized' = slugify(name')
    /\ line' = 0
    /\ target' = normalized' \o ExtStl
    /\ pc' = "export"
    /\ UNCHANGED <<keep_mm, input_dir, dir_exists, outdir, outdir0, outdir_before,
                   step_files, idx, shape, exc, stdout, trace, ended>>

\* lines 68, 52-56: the writer reports success, the file at target is
\* created or replaced
ExportStl ==
    /\ pc = "export"
    /\ outdir' = WriteFile(outdir, target, [kind |-> "mesh", shape |-> shape])
    /\ trace' = Append(trace, Event(idx, "export", TRUE, -1, shape, TRUE))
    /\ pc' = "print"
    /\ UNCHANGED <<slug_vars, keep_mm, input_dir, dir_exists, outdir0, outdir_before,
                   step_files, idx, shape, target, exc, stdout, ended>>

\* a slip: the writer's result is not looked at, convert returns target
ExportRaises_unchecked ==
    /\ pc = "export"
    /\ \E opened \in BOOLEAN :
          /\ outdir' = IF opened
                       THEN WriteFile(outdir, target, [kind |-> "partial", shape |-> shape])
                       ELSE outdir
          /\ trace' = Append(trace, Event(idx, "export", FALSE, -1, shape, opened))
    /\ pc' = "print"
    /\ UNCHANGED <<slug_vars, keep_mm, input_dir, dir_exists, outdir0, outdir_before,
                   step_files, idx, shape, target, exc, stdout, ended>>

\* lines 68, 52-56: the writer reports failure.  export_stl removes
\* nothing, so the directory is as the writer left it: untouched (the file
\* could not be opened) or with a truncated file at target (the write
\* broke off).
ExportRaises ==
    /\ pc = "export"
    /\ \E opened \in BOOLEAN :
          /\ outdir' = IF opened
                       THEN WriteFile(outdir, target, [kind |-> "partial", shape |-> shape])
                       ELSE outdir
          /\ trace' = Append(trace, Event(idx, "export", FALSE, -1, shape, opened))
    /\ exc' = [what |-> "write", path |-> target, status |-> -1]
    /\ pc' = "except"
    /\ UNCHANGED <<slug_vars, keep_mm, input_dir, dir_exists, outdir0, outdir_before,
                   step_files, idx, shape, target, stdout, ended>>

\* line 95
PrintConverted ==
    /\ pc = "print"
    /\ stdout' = Append(stdout, [kind |-> "converted", file |-> step_files[idx],
                                 target |-> target, exc |-> NoExc])
    /\ pc' = "loop"
    /\ UNCHANGED <<slug_vars, keep_mm, input_dir, dir_exists, outdir, outdir0,
                   outdir_before, step_files, idx, shape, target, exc, trace, ended>>

\* a slip: no try statement, the exception leaves main
HandleException_uncaught ==
    /\ pc = "except"
    /\ pc' = "done"
    /\ ended' = "raised"
    /\ UNCHANGED <<slug_vars, keep_mm, input_dir, dir_exists, outdir, outdir0,
                   outdir_before, step_files, idx, shape, target, exc, stdout, trace>>

\* lines 96-97: except Exception as exc
HandleException ==
    /\ pc = "except"
    /\ stdout' = Append(stdout, [kind |-> "error", file |-> step_files[idx],
                                 target |-> <<>>, exc |-> exc])
    /\ exc' = NoExc
    /\ pc' = "loop"
    /\ UNCHANGED <<slug_vars, keep_mm, input_dir, dir_exists, outdir, outdir0,
                   outdir_before, step_files, idx, shape, target, trace, ended>>

Next ==
    \/ Mkdir
    \/ ListStepFiles
    \/ NoStepFiles
    \/ EnterLoop
    \/ LoopNext
    \/ LoopEnd
    \/ ReadStep
    \/ ScaleShape
    \/ ScaleRaises
    \/ MeshShape
    \/ MeshRaises
    \/ TargetName
    \/ ExportStl
    \/ ExportRaises
    \/ PrintConverted
    \/ HandleException

Spec == Init /\ [][Next]_vars

----------------------------------------------------------------------------
(* The sanitizer run on its own, one source line per step.                 *)

SlugInit ==
    /\ name \in Names
    /\ normalized = <<>>
    /\ line = 73
    /\ keep_mm = FALSE
    /\ input_dir = {}
    /\ dir_exists = FALSE
    /\ outdir = EmptyDir
    /\ outdir0 = EmptyDir
    /\ outdir_before = EmptyDir
    /\ step_files = <<>>
    /\ idx = 0
    /\ pc = "slugify"
    /\ shape = NoShape
    /\ target = <<>>
    /\ exc = NoExc
    /\ stdout = <<>>
    /\ trace = <<>>
    /\ ended = "running"

SlugNormalize ==
    /\ line = 73
    /\ normalized' = slug_line73(name)
    /\ line' = 74
    /\ UNCHANGED <<name, pipe_vars>>

SlugReplaceLower ==
    /\ line = 74
    /\ normalized' = slug_line74(normalized)
    /\ line' = 75
    /\ UNCHANGED <<name, pipe_vars>>

SlugRemove ==
    /\ line = 75
    /\ normalized' = slug_line75(normalized)
    /\ line' = 76
    /\ UNCHANGED <<name, pipe_vars>>

SlugCollapseStrip ==
    /\ line = 76
    /\ normalized' = slug_line76(normalized)
    /\ line' = 77
    /\ UNCHANGED <<name, pipe_vars>>

SlugReturn ==
    /\ line = 77
    /\ normalized' = slug_line77(normalized)
    /\ line' = 0
    /\ UNCHANGED <<name, pipe_vars>>

SlugNext ==
    \/ SlugNormalize
    \/ SlugReplaceLower
    \/ SlugRemove
    \/ SlugCollapseStrip
    \/ SlugReturn

SlugSpec == SlugInit /\ [][SlugNext]_vars

----------------------------------------------------------------------------
(* Properties of slugify (checked under SlugSpec).                         *)

Returned == pc = "slugify" /\ line = 0

SlugCharSet == (97..122) \cup (48..57) \cup {45, 46, 95}

\* C4: every result of slugify is non-empty, consists of characters of
\* [a-z0-9._-] only, has no two consecutive hyphens and neither starts nor
\* ends with a hyphen.
C4_SlugWellFormed ==
    Returned =>
        /\ normalized # <<>>
        /\ \A i \in DOMAIN normalized : normalized[i] \in SlugCharSet
        /\ \A i \in 1..(Len(normalized) - 1) :
              ~(normalized[i] = 45 /\ normalized[i + 1] = 45)
        /\ normalized[1] # 45
        /\ normalized[Len(normalized)] # 45

\* " A" followed by a fullwidth hyphen: space and hyphen are both stripped
C4_Witness ==
    /\ Returned
    /\ name = <<32, 65, 65293>>
    /\ normalized = <<97>>

\* no character of s leaves an ASCII character behind
NoAsciiContent(s) ==
    \A i \in DOMAIN s : \A j \in DOMAIN NFKD(s[i]) : NFKD(s[i])[j] >= 128

IsAlnum(c) == c \in (48..57) \cup (65..90) \cup (97..122)

\* ASCII letters, digits and spaces, no two spaces in a row
LettersDigitsSingleSpaces(s) ==
    /\ \A i \in DOMAIN s : IsAlnum(s[i]) \/ s[i] = 32
    /\ \A i \in 1..(Len(s) - 1) : ~(s[i] = 32 /\ s[i + 1] = 32)

\* s in lower case with a hyphen for every space
LoweredHyphenated(s) ==
    [i \in DOMAIN s |-> IF s[i] = 32 THEN 45
                        ELSE IF s[i] \in 65..90 THEN s[i] + 32 ELSE s[i]]

\* C5 as stated: a stem without ASCII content yields 'converted'; a stem of
\* ASCII letters, digits and single spaces yields the lower-cased stem with
\* hyphens for spaces.
C5_Original ==
    Returned =>
        /\ NoAsciiContent(name) => normalized = Converted
        /\ (name # <<>> /\ LettersDigitsSingleSpaces(name))
              => normalized = LoweredHyphenated(name)
        /\ name = BracketMountV2 => normalized = BracketMountV2Slug

\* C5 amended: as C5_Original, for stems that neither start nor end with a
\* space.
C5_Fallback ==
    Returned =>
        /\ NoAsciiContent(name) => normalized = Converted
        /\ (/\ name # <<>>
            /\ LettersDigitsSingleSpaces(name)
            /\ name[1] # 32
            /\ name[Len(name)] # 32)
              => normalized = LoweredHyphenated(name)
        /\ name = BracketMountV2 => normalized = BracketMountV2Slug

C5_Witness ==
    /\ Returned
    /\ name = Nihongo
    /\ normalized = Converted

\* C10: slugify(slugify(x)) = slugify(x), every result being a fixed point
\* of each line of slugify.
C10_Idempotent ==
    Returned =>
        /\ slugify(normalized) = normalized
        /\ slug_line73(normalized) = normalized
        /\ slug_line74(normalized) = normalized
        /\ slug_line75(normalized) = normalized
        /\ slug_line76(normalized) = normalized
        /\ slug_line77(normalized) = normalized

\* "a---a" becomes "a-a"
C10_Witness ==
    /\ Returned
    /\ name = <<97, 45, 45, 45, 97>>
    /\ normalized = <<97, 45, 97>>

----------------------------------------------------------------------------
(* Properties of main and convert (checked under Spec).                    *)

MainEnded == pc = "done"

\* the kernel calls made for the file at position i, in order
EventsOf(i) == SelectSeq(trace, LAMBDA e : e.idx = i)

HasEvent(i, step, ok) ==
    \E k \in DOMAIN trace :
        trace[k].idx = i /\ trace[k].step = step /\ trace[k].ok = ok

\* the steps convert has to take for one file
StepsRequired ==
    IF keep_mm THEN <<"read", "mesh", "export">>
               ELSE <<"read", "scale", "mesh", "export">>

AllStepsSucceeded(i) ==
    \A k \in DOMAIN StepsRequired : HasEvent(i, StepsRequired[k], TRUE)

\* the files of INPUT_DIR whose names end in ".STP"
Discovered ==
    {n \in input_dir : Len(n) >= 4 /\ SubSeq(n, Len(n) - 3, Len(n)) = <<46, 83, 84, 80>>}

\* C1: the loop visits every discovered file exactly once, in sorted order,
\* whatever fails at whichever step, and main then returns normally.
C1_FailureIsolation ==
    LET reads == SelectSeq(trace, LAMBDA e : e.step = "read")
    IN  /\ pc \notin {"mkdir", "list"} =>
              /\ {step_files[i] : i \in DOMAIN step_files} = Discovered
              /\ Len(step_files) = Cardinality(Discovered)
              /\ \A i \in 1..(Len(step_files) - 1) :
                    LexLess(step_files[i], step_files[i + 1])
        /\ Len(reads) <= Len(step_files)
        /\ \A k \in DOMAIN reads : reads[k].idx = k
        /\ \A k \in DOMAIN reads :
              reads[k].ok => reads[k].shape.src = step_files[k]
        /\ ended # "raised"
        /\ MainEnded =>
              /\ ended = "returned"
              /\ Len(reads) = Len(step_files)

\* three files: the first fails to read, the second fails while meshing,
\* the third is converted
C1_Witness ==
    /\ MainEnded
    /\ Len(step_files) = 3
    /\ HasEvent(1, "read", FALSE)
    /\ HasEvent(2, "mesh", FALSE)
    /\ HasEvent(3, "export", TRUE)

\* C2: when main ends on a non-empty list, stdout holds exactly one line per
\* discovered file, in processing order: a success line if and only if all
\* steps of convert succeeded for the file, otherwise an error line naming
\* the file.
C2_OneLinePerFile ==
    (MainEnded /\ step_files # <<>>) =>
        /\ Len(stdout) = Len(step_files)
        /\ \A i \in DOMAIN stdout :
              /\ stdout[i].kind \in {"converted", "error"}
              /\ stdout[i].file = step_files[i]
              /\ stdout[i].kind = "converted" <=> AllStepsSucceeded(i)
              /\ stdout[i].kind = "converted" => HasEvent(i, "export", TRUE)
        /\ Cardinality({i \in DOMAIN stdout : stdout[i].kind = "error"})
              = Cardinality({i \in DOMAIN step_files : ~AllStepsSucceeded(i)})

\* the fourth scenario: the first of two files fails to import
C2_Witness ==
    /\ MainEnded
    /\ Len(step_files) = 2
    /\ Len(stdout) = 2
    /\ stdout[1].kind = "error"
    /\ stdout[1].exc.what = "read"
    /\ stdout[2].kind = "converted"

\* C3: after main ends, starting from an empty output directory, the number
\* of files in the output directory equals the number of inputs that were
\* converted successfully.
C3_OneFilePerSuccess ==
    (MainEnded /\ DOMAIN outdir0 = {}) =>
        Cardinality(DOMAIN outdir)
            = Cardinality({i \in DOMAIN step_files : AllStepsSucceeded(i)})

\* C6: for every file the kernel calls are read, scale, mesh, export in
\* this order, each after the success of the one before; scale (by 0.001)
\* is called if and only if keep_mm is not set; the shape exported is the
\* shape that was meshed.
C6_StepOrder ==
    \A i \in 1..idx :
        LET ev == EventsOf(i)
            expected == IF keep_mm THEN <<"read", "mesh", "export">>
                                   ELSE <<"read", "scale", "mesh", "export">>
        IN  /\ Len(ev) <= Len(expected)
            /\ \A k \in DOMAIN ev :
                  /\ ev[k].step = expected[k]
                  /\ k < Len(ev) => ev[k].ok
            /\ \A k \in DOMAIN ev :
                  (ev[k].step = "scale" /\ ev[k].ok) =>
                      ev[k].shape.scale_den = 1000 * ev[k - 1].shape.scale_den
            /\ \A k \in DOMAIN ev :
                  ev[k].step = "export" =>
                      /\ ev[k].shape = ev[k - 1].shape
                      /\ ev[k].shape.meshed
                      /\ ev[k].shape.src = step_files[i]
                      /\ ev[k].shape.scale_den = IF keep_mm THEN 1 ELSE 1000
            /\ (i = idx /\ pc = "print") =>
                  outdir[target] = [kind |-> "mesh", shape |-> ev[Len(ev)].shape]

\* a scaled and meshed shape has just been exported
C6_Witness ==
    /\ pc = "print"
    /\ ~keep_mm
    /\ Len(EventsOf(idx)) = 4
    /\ outdir[target].shape.scale_den = 1000
    /\ outdir[target].shape.meshed

\* C7: when the read status is not the success status, convert fails with
\* the read error for that file, no other step is attempted for it, and
\* the output directory is what it was before the file was taken.
C7_ReadFailure ==
    \A k \in DOMAIN trace :
        (trace[k].step = "read" /\ trace[k].status # 1) =>
            /\ ~trace[k].ok
            /\ \A j \in DOMAIN trace : j # k => trace[j].idx # trace[k].idx
            /\ trace[k].idx = idx =>
                  /\ outdir = outdir_before
                  /\ \/ /\ pc = "except"
                        /\ exc.what = "read"
                        /\ exc.path = step_files[idx]
                        /\ exc.status = trace[k].status
                     \/ /\ pc \in {"loop", "done"}
                        /\ Len(stdout) = idx
                        /\ stdout[idx].kind = "error"
                        /\ stdout[idx].file = step_files[idx]
                        /\ stdout[idx].exc.what = "read"

\* the second file fails to read (RetFail) after the first was exported
C7_Witness ==
    /\ pc = "except"
    /\ idx = 2
    /\ exc.what = "read"
    /\ exc.status = 3
    /\ HasEvent(1, "export", TRUE)
    /\ outdir = outdir_before
    /\ DOMAIN outdir # {}

\* C8: when no file of the input directory matches the pattern, no kernel
\* call is made, the output directory keeps its files, exactly one
\* informational line is printed and main returns; the output directory
\* exists from the first statement on.
C8_EmptyInput ==
    Discovered = {} =>
        /\ trace = <<>>
        /\ outdir = outdir0
        /\ pc # "mkdir" => dir_exists
        /\ ~MainEnded => stdout = <<>>
        /\ MainEnded =>
              /\ ended = "returned"
              /\ Len(stdout) = 1
              /\ stdout[1].kind = "info"

\* the directory holds only "x.stp" and the output directory was absent
C8_Witness ==
    /\ MainEnded
    /\ input_dir # {}
    /\ DOMAIN outdir0 = {}
    /\ dir_exists
    /\ Len(stdout) = 1
    /\ stdout[1].kind = "info"

\* the file name convert derives for the file at position i
TargetOf(i) == slugify(stem(step_files[i])) \o ExtStl

\* the positions whose stems differ from that of i and give the same slug
CollidingWith(i) ==
    {j \in DOMAIN step_files :
        /\ j # i
        /\ stem(step_files[j]) # stem(step_files[i])
        /\ TargetOf(j) = TargetOf(i)}

\* the colliding position that comes last in sorted order
LastInOrder(S) ==
    CHOOSE i \in S : \A j \in S \ {i} : LexLess(step_files[j], step_files[i])

ExportEvent(i) ==
    trace[CHOOSE k \in DOMAIN trace : trace[k].idx = i /\ trace[k].step = "export"]

\* the inputs that collide are exported to one path, and a later export
\* replaces the earlier output without an error line: every converted one
\* has its success line, with the shared path
CollisionsSilent ==
    \A i \in DOMAIN step_files :
        (CollidingWith(i) # {} /\ AllStepsSucceeded(i)) =>
            /\ stdout[i].kind = "converted"
            /\ stdout[i].target = TargetOf(i)
            /\ \A j \in CollidingWith(i) :
                  AllStepsSucceeded(j) => stdout[j].target = stdout[i].target

====
